---------------------------- MODULE Spec2Model ----------------------------
(***************************************************************************)
(* Model of restricted_pkg/commands.py: the overridden setuptools commands *)
(* that pin publishing to one declared private repository, and the         *)
(* hand-built multipart upload (upload.upload_file_extended).              *)
(*                                                                         *)
(* Python strings are byte strings (the module is Python 2): credentials   *)
(* and file contents are sequences of byte values, texts that are only     *)
(* copied around are TLA+ strings.                                         *)
(***************************************************************************)
EXTENDS Integers, Sequences, FiniteSets, TLC

VARIABLES
    cmd,                \* which command object this is
    private_repository, \* self.distribution.private_repository
    custom_headers,     \* self.distribution.custom_headers
    pypirc,             \* self.pypirc
    repository,         \* self.repository
    username,           \* self.username
    password,           \* self.password
    disable_pypi,       \* self.disable_pypi (easy_install)
    index_url,          \* self.index_url (easy_install)
    find_links,         \* self.find_links (easy_install)
    no_find_links,      \* self.no_find_links (easy_install)
    files,              \* the configuration files on disk, by path
    upl,                \* the arguments and options of one upload_file call
    pc,                 \* "ready", "finalized", "uploaded" or "raised"
    exc,                \* the exception that left the handler, if any
    events,             \* what the handler did to the outside world, in order
    request,            \* the urllib2.Request handed to urlopen, if one was
    response,           \* what the transport gave back for it
    calls               \* the methods of the command entered so far

vars == <<cmd, private_repository, custom_headers, pypirc, repository, username,
          password, disable_pypi, index_url, find_links, no_find_links, files,
          upl, pc, exc, events, request, response, calls>>

---------------------------------------------------------------------------
(* Python values *)

\* Python's None where a byte string is expected: no byte string holds -1.
None == <<-1>>

\* Python's None where a structured value (a URL, an exception) is expected.
NoneRec == [kind |-> "None"]

\* Truthiness of an option that holds None or a string.
Truthy(v) == v \notin {NoneRec, [kind |-> "str", text |-> ""]}

NoExc == [type |-> "None", msg |-> <<>>]

---------------------------------------------------------------------------
(* Repository strings.  A URL is kept as the pieces it is written from     *)
(* (scheme, credentials, host, path, ;params, ?query, #fragment); a string *)
(* with no scheme and no host (an alias) keeps its text.                   *)

UrlFull(scheme, user, pass, host, path, params, query, fragment) ==
    [kind |-> "str", text |-> "", scheme |-> scheme, user |-> user, pass |-> pass,
     host |-> host, path |-> path, params |-> params, query |-> query,
     fragment |-> fragment]

Url(scheme, user, pass, host, path) == UrlFull(scheme, user, pass, host, path, "", "", "")

Alias(name) == [kind |-> "str", text |-> name]

EmptyStr == [kind |-> "str", text |-> ""]

IsUrlString(s) == s.kind = "str" /\ "scheme" \in DOMAIN s

CfgUser == <<99, 117>>
CfgPass == <<99, 112>>
UrlUser == <<117>>
UrlPass == <<112>>

LowerHost(h) == IF h = "IDX.example" THEN "idx.example" ELSE h

StripSlash(p) == IF p = "/simple/" THEN "/simple" ELSE IF p = "/" THEN "" ELSE p

---------------------------------------------------------------------------
(* base.RepositoryURL and base.PyPIConfig *)

\* RepositoryURL(string): credentials are split out on construction.
RepositoryURL(s) ==
    IF IsUrlString(s)
    THEN [base_url |-> [scheme |-> s.scheme, host |-> s.host, path |-> s.path, text |-> ""],
          username |-> s.user, password |-> s.pass]
    ELSE [base_url |-> [scheme |-> "", host |-> "", path |-> "", text |-> s.text],
          username |-> None, password |-> None]

\* The string RepositoryURL.base_url evaluates to.
BaseUrlString(b) ==
    IF b.text = "" /\ (b.scheme # "" \/ b.host # "")
    THEN Url(b.scheme, None, None, b.host, b.path)
    ELSE Alias(b.text)

\* RepositoryURL.full_url: the base URL with the credentials embedded again.
FullUrlString(r) ==
    IF r.base_url.text = "" /\ (r.base_url.scheme # "" \/ r.base_url.host # "")
    THEN Url(r.base_url.scheme, r.username, r.password, r.base_url.host, r.base_url.path)
    ELSE Alias(r.base_url.text)

Normalize(b) ==
    [scheme |-> b.scheme, host |-> LowerHost(b.host), path |-> StripSlash(b.path),
     text |-> b.text]

\* The "same repository" rule: equal normalized base URLs, credentials ignored.
SameRepository(a, b) == Normalize(a.base_url) = Normalize(b.base_url)

\* RepositoryURL.__contains__, as used by `repo_url not in package_repo`.
Contains(package_repo, repo_url) == SameRepository(package_repo, repo_url)

\* One section of the file: repository is NoneRec when the key is absent.
Section(alias, repo, user, pass) ==
    [alias |-> alias, repository |-> repo, username |-> user, password |-> pass]

WellFormed(sec) == sec.repository # NoneRec

\* RepositoryConfig.get_clean_url: the section's endpoint with its credentials.
get_clean_url(sec) ==
    [base_url |-> RepositoryURL(sec.repository).base_url,
     username |-> sec.username, password |-> sec.password]

\* PyPIConfig.get_repo_config: the set of results the lookup may give, each
\* [err, found, section].  An alias match wins; else the sections naming the
\* same endpoint; none: not found.
get_repo_config(config, identifier) ==
    LET byAlias == {sec \in config : ~IsUrlString(identifier) /\ sec.alias = identifier.text}
        byUrl   == {sec \in config : WellFormed(sec)
                       /\ SameRepository(RepositoryURL(sec.repository), RepositoryURL(identifier))}
        none    == Section("", NoneRec, None, None)
    IN  IF byAlias # {}
        THEN {[err |-> ~WellFormed(sec), found |-> WellFormed(sec), section |-> sec] : sec \in byAlias}
        ELSE IF byUrl # {}
        THEN {[err |-> FALSE, found |-> TRUE, section |-> sec] : sec \in byUrl}
        ELSE {[err |-> FALSE, found |-> FALSE, section |-> none]}


---------------------------------------------------------------------------
(* Configuration files *)

DEFAULT_PYPI_RC == [kind |-> "str", text |-> "~/.pypirc"]

AltRc == [kind |-> "str", text |-> "alt.cfg"]

\* os.path.abspath(os.path.expanduser(path))
AbsPath(p) == IF p.text = "~/.pypirc" THEN "/home/user/.pypirc" ELSE "/work/" \o p.text

Missing == [exists |-> FALSE, sections |-> {}]

File(sections) == [exists |-> TRUE, sections |-> sections]

IdxUrl      == Url("https", None, None, "idx.example", "/simple")
IdxUrlCreds == Url("https", UrlUser, UrlPass, "idx.example", "/simple")
IdxUrlAlt   == Url("https", None, None, "IDX.example", "/simple/")
IdxUrlHttp  == Url("http", None, None, "idx.example", "/simple")
OtherUrl    == Url("https", None, None, "other.example", "/simple")

SecInternal    == Section("internal", IdxUrl, CfgUser, CfgPass)
SecInternalAlt == Section("internal", IdxUrlAlt, CfgUser, CfgPass)
SecOther       == Section("other", OtherUrl, <<111, 117>>, <<111, 112>>)
SecBroken      == Section("broken", NoneRec, CfgUser, CfgPass)

DefaultFiles ==
    {Missing, File({}), File({SecInternal}), File({SecInternalAlt}), File({SecOther}),
     File({SecInternal, SecOther}), File({SecOther, SecBroken})}

AltFiles == {Missing, File({SecOther})}

FileSystems ==
    {[p \in {"/home/user/.pypirc", "/work/alt.cfg"} |->
         IF p = "/home/user/.pypirc" THEN d ELSE a] : d \in DefaultFiles, a \in AltFiles}

DeclaredRepositories == {NoneRec, IdxUrl, IdxUrlCreds, IdxUrlAlt, OtherUrl}

RequestedRepositories ==
    {NoneRec, EmptyStr, Alias("internal"), Alias("other"), Alias("broken"),
     IdxUrl, IdxUrlAlt, IdxUrlHttp, OtherUrl}

---------------------------------------------------------------------------
(* get_repo_url *)

\* The results get_repo_url(pypirc, repository) may give on file system fs:
\* [err, url].  A missing file is an empty configuration.
get_repo_url(fs, rc, ident) ==
    LET config == fs[AbsPath(rc)].sections
    IN  {[err |-> r.err,
          url |-> IF r.found THEN get_clean_url(r.section) ELSE RepositoryURL(ident)]
            : r \in get_repo_config(config, ident)}

Ev(what, arg) == [ev |-> what, arg |-> arg]

SetupError  == [type |-> "DistutilsSetupError",
                msg |-> <<"The 'private_repository' argument to the setup() call is required.">>]
OptionError(package_repo) ==
    [type |-> "DistutilsOptionError",
     msg |-> <<"The --repository option of private packages must match the configured private repository, %s.",
               BaseUrlString(package_repo.base_url)>>]
ConfigError == [type |-> "ConfigError", msg |-> <<>>]

Raise(e) == pc' = "raised" /\ exc' = e

\* A slip that defaults self.pypirc before the declared repository is checked.
MissingDeclared_AfterDefault ==
    /\ Raise(SetupError)
    /\ pypirc' = (IF Truthy(pypirc) THEN pypirc ELSE DEFAULT_PYPI_RC)
    /\ UNCHANGED events

\* `if self.distribution.private_repository is None: raise DistutilsSetupError`,
\* the first statement of every finalize_options.
MissingDeclared ==
    /\ Raise(SetupError)
    /\ UNCHANGED <<pypirc, events>>

\* A slip that drops the `not` of the guard.
Mismatch_Inverted(requested, repo_url, package_repo) ==
    Truthy(requested) /\ Contains(package_repo, repo_url)

\* The guard of `if self.repository and repo_url not in package_repo`.
Mismatch(requested, repo_url, package_repo) ==
    Truthy(requested) /\ ~Contains(package_repo, repo_url)

\* The identifier handed to get_repo_url by register, upload and upload_docs.
ResolvedIdentifier(requested, package_repo) ==
    IF Truthy(requested) THEN requested ELSE BaseUrlString(package_repo.base_url)

\* finalize_options of register, upload and upload_docs, up to the call of
\* the base class's finalize_options.
RestrictedFinalize(c) ==
    /\ pc = "ready"
    /\ cmd = c
    /\ UNCHANGED <<cmd, private_repository, custom_headers, disable_pypi, index_url,
                   find_links, no_find_links, files, upl, request, response, calls>>
    /\ IF private_repository = NoneRec
       THEN /\ MissingDeclared
            /\ UNCHANGED <<repository, username, password>>
       ELSE LET rc == IF Truthy(pypirc) THEN pypirc ELSE DEFAULT_PYPI_RC
                package_repo == RepositoryURL(private_repository)
                ident == ResolvedIdentifier(repository, package_repo)
                read == events \o <<Ev("read_config", AbsPath(rc))>>
            IN  /\ pypirc' = rc
                /\ \E r \in get_repo_url(files, rc, ident) :
                     IF r.err
                     THEN /\ Raise(ConfigError)
                          /\ events' = read
                          /\ UNCHANGED <<repository, username, password>>
                     ELSE IF Mismatch(repository, r.url, package_repo)
                     THEN /\ Raise(OptionError(package_repo))
                          /\ events' = read
                          /\ UNCHANGED <<repository, username, password>>
                     ELSE /\ events' = read \o <<Ev("log.info", "Switching to private repository")>>
                          /\ repository' = BaseUrlString(r.url.base_url)
                          /\ username' = r.url.username
                          /\ password' = r.url.password
                          /\ pc' = "finalized"
                          /\ exc' = NoExc

register_finalize_options == RestrictedFinalize("register")

upload_finalize_options == RestrictedFinalize("upload")

upload_docs_finalize_options == RestrictedFinalize("upload_docs")

\* easy_install.finalize_options, up to the call of the base class's.
easy_install_finalize_options ==
    /\ pc = "ready"
    /\ cmd = "easy_install"
    /\ UNCHANGED <<cmd, private_repository, custom_headers, repository, username,
                   password, files, upl, request, response, calls>>
    /\ IF private_repository = NoneRec
       THEN /\ MissingDeclared
            /\ UNCHANGED <<disable_pypi, index_url, find_links, no_find_links>>
       ELSE LET rc == IF Truthy(pypirc) THEN pypirc ELSE DEFAULT_PYPI_RC
                read == events \o <<Ev("read_config", AbsPath(rc))>>
            IN  /\ pypirc' = rc
                /\ \E r \in get_repo_url(files, rc, private_repository) :
                     IF r.err
                     THEN /\ Raise(ConfigError)
                          /\ events' = read
                          /\ UNCHANGED <<disable_pypi, index_url, find_links, no_find_links>>
                     ELSE \E install_disable_pypi \in {"None", "True"} :
                          /\ disable_pypi' = IF disable_pypi = "None" THEN install_disable_pypi
                                             ELSE disable_pypi
                          /\ IF disable_pypi' = "True"
                             THEN /\ events' = read \o <<Ev("log.info", "Replacing PyPI with private repository")>>
                                  /\ index_url' = FullUrlString(r.url)
                                  /\ no_find_links' = TRUE
                                  /\ UNCHANGED find_links
                             ELSE /\ events' = read \o <<Ev("log.info", "Adding private repository to searched repositories")>>
                                  /\ find_links' = Append(find_links, FullUrlString(r.url))
                                  /\ UNCHANGED <<index_url, no_find_links>>
                          /\ pc' = "finalized"
                          /\ exc' = NoExc

NoUpload == [kind |-> "None"]

InitFinalize ==
    /\ cmd \in {"easy_install", "register", "upload", "upload_docs"}
    /\ private_repository \in DeclaredRepositories
    /\ custom_headers = <<>>
    /\ pypirc \in {NoneRec, AltRc}
    /\ repository \in RequestedRepositories
    /\ username = None
    /\ password = None
    /\ disable_pypi \in {"None", "True"}
    /\ index_url = NoneRec
    /\ find_links = <<>>
    /\ no_find_links = FALSE
    /\ files \in FileSystems
    /\ upl = NoUpload
    /\ pc = "ready"
    /\ exc = NoExc
    /\ events = <<>>
    /\ request = NoneRec
    /\ response = NoneRec
    /\ calls = <<>>

NextFinalize ==
    \/ easy_install_finalize_options
    \/ register_finalize_options
    \/ upload_finalize_options
    \/ upload_docs_finalize_options

SpecFinalize == InitFinalize /\ [][NextFinalize]_vars

---------------------------------------------------------------------------
(* Byte strings: base64, digests, decimal numbers *)

\* The base64 alphabet, as character codes: A-Z a-z 0-9 + /
B64Char(i) ==
    IF i < 26 THEN 65 + i
    ELSE IF i < 52 THEN 97 + (i - 26)
    ELSE IF i < 62 THEN 48 + (i - 52)
    ELSE IF i = 62 THEN 43 ELSE 47

B64Index(c) ==
    IF c >= 65 /\ c <= 90 THEN c - 65
    ELSE IF c >= 97 /\ c <= 122 THEN c - 97 + 26
    ELSE IF c >= 48 /\ c <= 57 THEN c - 48 + 52
    ELSE IF c = 43 THEN 62 ELSE 63

RECURSIVE standard_b64encode(_)
\* base64.standard_b64encode: three bytes to four characters, "=" padding.
standard_b64encode(b) ==
    IF Len(b) = 0 THEN <<>>
    ELSE IF Len(b) = 1
    THEN LET n == b[1] * 65536
         IN  <<B64Char(n \div 262144), B64Char((n \div 4096) % 64), 61, 61>>
    ELSE IF Len(b) = 2
    THEN LET n == b[1] * 65536 + b[2] * 256
         IN  <<B64Char(n \div 262144), B64Char((n \div 4096) % 64),
               B64Char((n \div 64) % 64), 61>>
    ELSE LET n == b[1] * 65536 + b[2] * 256 + b[3]
         IN  <<B64Char(n \div 262144), B64Char((n \div 4096) % 64),
               B64Char((n \div 64) % 64), B64Char(n % 64)>>
             \o standard_b64encode(SubSeq(b, 4, Len(b)))

RECURSIVE standard_b64decode(_)
\* What a receiver recovers from a base64 part.
standard_b64decode(c) ==
    IF Len(c) < 4 THEN <<>>
    ELSE LET pad == IF c[4] # 61 THEN 0 ELSE IF c[3] # 61 THEN 1 ELSE 2
             n == B64Index(c[1]) * 262144 + B64Index(c[2]) * 4096
                  + (IF pad < 2 THEN B64Index(c[3]) * 64 ELSE 0)
                  + (IF pad < 1 THEN B64Index(c[4]) ELSE 0)
             bytes == <<n \div 65536, (n \div 256) % 256, n % 256>>
         IN  SubSeq(bytes, 1, 3 - pad) \o standard_b64decode(SubSeq(c, 5, Len(c)))

HexDigit(n) == IF n < 10 THEN 48 + n ELSE 87 + n

RECURSIVE HexString(_)
HexString(b) ==
    IF b = <<>> THEN <<>>
    ELSE <<HexDigit(b[1] \div 16), HexDigit(b[1] % 16)>> \o HexString(Tail(b))

\* md5(data).hexdigest().  MD5 is idealised as collision free: the digest of
\* a byte string is modelled by the hex rendering of the string itself.
md5_hexdigest(b) == HexString(b)

Digit == <<"0", "1", "2", "3", "4", "5", "6", "7", "8", "9">>

RECURSIVE Str(_)
\* str(n) and '%s' % n of a natural number.
Str(n) == IF n < 10 THEN Digit[n + 1] ELSE Str(n \div 10) \o Digit[(n % 10) + 1]

RECURSIVE Sum(_)
Sum(s) == IF s = <<>> THEN 0 ELSE Head(s) + Sum(Tail(s))

RECURSIVE Flatten(_)
Flatten(ss) == IF ss = <<>> THEN <<>> ELSE Head(ss) \o Flatten(Tail(ss))

---------------------------------------------------------------------------
(* upload.upload_file_extended: the target URL *)

\* urlparse lower-cases the scheme.
LowerScheme(t) == IF t = "HTTP" THEN "http" ELSE IF t = "HTTPS" THEN "https" ELSE t

\* urlparse.urlparse(string): (schema, netloc, url, params, query, fragments).
urlparse(s) ==
    IF IsUrlString(s)
    THEN [schema |-> LowerScheme(s.scheme), netloc |-> s.host, url |-> s.path,
          params |-> s.params, query |-> s.query, fragments |-> s.fragment]
    ELSE [schema |-> "", netloc |-> "", url |-> s.text,
          params |-> "", query |-> "", fragments |-> ""]

AssertionError(text) == [type |-> "AssertionError", msg |-> <<text>>]

\* A slip that forgets the query and the fragment.
CheckRepositoryUrl_ParamsOnly(s) ==
    LET u == urlparse(s)
    IN  IF u.params # ""
        THEN AssertionError("Incompatible url")
        ELSE IF u.schema \notin {"http", "https"}
        THEN AssertionError("unsupported schema " \o u.schema)
        ELSE NoExc

\* "Makes sure the repository URL is compliant": the exception the two checks
\* raise, or NoExc.
CheckRepositoryUrl(s) ==
    LET u == urlparse(s)
    IN  IF u.params # "" \/ u.query # "" \/ u.fragments # ""
        THEN AssertionError("Incompatible url")
        ELSE IF u.schema \notin {"http", "https"}
        THEN AssertionError("unsupported schema " \o u.schema)
        ELSE NoExc

---------------------------------------------------------------------------
(* upload.upload_file_extended: the form data *)

\* The keys of `data`, as the dictionary literal and the two later
\* assignments list them.
SourceKeys ==
    <<":action", "protcol_version", "name", "version", "content", "filetype",
      "pyversion", "md5_digest", "metadata_version", "summary", "home_page",
      "author", "author_email", "license", "description", "keywords", "platform",
      "classifiers", "download_url", "provides", "requires", "obsoletes", "comment">>

\* data.items() of CPython 2.7 (string hashes not randomised): the slots of
\* the hash table in index order, for the keys above inserted in that order.
CPythonKeys ==
    <<"comment", "metadata_version", "filetype", "keywords", "protcol_version",
      "author", "home_page", "download_url", "content", "platform", "version",
      "obsoletes", "provides", "description", "md5_digest", ":action",
      "classifiers", "name", "license", "pyversion", "summary", "author_email",
      "requires">>

\* The same table once data['gpg_signature'] is stored: its slot lies
\* between those of author_email and requires.
CPythonKeysSigned == SubSeq(CPythonKeys, 1, 22) \o <<"gpg_signature", "requires">>

\* The orders data.items() may have: a dictionary's order is the
\* interpreter's (hash randomisation, -R, permutes it); the source order is
\* one of them.
DictOrders(sign) ==
    IF sign THEN {CPythonKeysSigned, SourceKeys \o <<"gpg_signature">>}
    ELSE {CPythonKeys, SourceKeys}

StrVal(v) == [kind |-> "str", fname |-> "", vs |-> <<v>>]
ListVal(vs) == [kind |-> "list", fname |-> "", vs |-> vs]
FileVal(fname, v) == [kind |-> "tuple", fname |-> fname, vs |-> <<v>>]

B_file_upload == <<102, 105, 108, 101, 95, 117, 112, 108, 111, 97, 100>>
B_1 == <<49>>
B_1_0 == <<49, 46, 48>>
B_UNKNOWN == <<85, 78, 75, 78, 79, 87, 78>>
B_pkg == <<112, 107, 103>>
B_built_for == <<98, 117, 105, 108, 116, 32, 102, 111, 114, 32>>
B_space == <<32>>

CommandBytes(c) ==
    IF c = "sdist" THEN <<115, 100, 105, 115, 116>>
    ELSE IF c = "bdist_rpm" THEN <<98, 100, 105, 115, 116, 95, 114, 112, 109>>
    ELSE <<98, 100, 105, 115, 116, 95, 100, 117, 109, 98>>

\* os.path.basename
basename(f) == IF f = "dist/pkg-1.0.tar.gz" THEN "pkg-1.0.tar.gz" ELSE f

\* The comment field: platform.dist() is (dist, version, id), platform.platform
\* a text; env holds what the two return.
Comment(command, env) ==
    IF command = "bdist_rpm"
    THEN IF env.dist # <<>> THEN B_built_for \o env.dist \o B_space \o env.dist_version
         ELSE <<>>
    ELSE IF command = "bdist_dumb" THEN B_built_for \o env.platform
    ELSE <<>>

\* What md5() is applied to: `content`, which by then holds the base64 text
\* (`content = standard_b64encode(content)` comes first).
ChecksumInput(raw, encoded) == encoded

\* The dictionary `data`, as a function of its keys.
FormData(command, pyversion, filename, raw, meta, comment, sign, asc) ==
    LET content == standard_b64encode(raw)
        base == [k \in {SourceKeys[i] : i \in 1..Len(SourceKeys)} |->
            CASE k = ":action" -> StrVal(B_file_upload)
              [] k = "protcol_version" -> StrVal(B_1)
              [] k = "name" -> StrVal(meta.name)
              [] k = "version" -> StrVal(meta.version)
              [] k = "content" -> FileVal(basename(filename), content)
              [] k = "filetype" -> StrVal(CommandBytes(command))
              [] k = "pyversion" -> StrVal(pyversion)
              [] k = "md5_digest" -> StrVal(md5_hexdigest(ChecksumInput(raw, content)))
              [] k = "metadata_version" -> StrVal(B_1_0)
              [] k = "summary" -> StrVal(meta.description)
              [] k = "home_page" -> StrVal(meta.url)
              [] k = "author" -> StrVal(meta.contact)
              [] k = "author_email" -> StrVal(meta.contact_email)
              [] k = "license" -> StrVal(meta.licence)
              [] k = "description" -> StrVal(meta.long_description)
              [] k = "keywords" -> ListVal(meta.keywords)
              [] k = "platform" -> ListVal(meta.platforms)
              [] k = "classifiers" -> ListVal(meta.classifiers)
              [] k = "download_url" -> StrVal(meta.download_url)
              [] k = "provides" -> ListVal(meta.provides)
              [] k = "requires" -> ListVal(meta.requires)
              [] k = "obsoletes" -> ListVal(meta.obsoletes)
              [] OTHER -> StrVal(comment)]
    IN  IF sign
        THEN [k \in DOMAIN base \cup {"gpg_signature"} |->
                IF k = "gpg_signature" THEN FileVal(basename(filename) \o ".asc", asc)
                ELSE base[k]]
        ELSE base

---------------------------------------------------------------------------
(* upload.upload_file_extended: the MIME payload and the headers *)

boundary == "--------------GHSKFJDLGDS7543FJKLFHRE75642756743254"
sep_boundary == "\r\n--" \o boundary
end_boundary == sep_boundary \o "--\r\n"

encode_content_base64 == TRUE

\* A slip that serialises only the first entry of a list-valued field.
PartsOf_FirstOnly(key, val) ==
    [j \in 1..(IF Len(val.vs) > 0 THEN 1 ELSE 0) |->
        LET fn == IF val.kind = "tuple" THEN ";filename=\"" \o val.fname \o "\"" ELSE ""
        IN  [name |-> key, fn |-> fn, base64 |-> encode_content_base64 /\ fn # "",
             value |-> val.vs[j],
             extra_newline |-> val.vs[j] # <<>> /\ val.vs[j][Len(val.vs[j])] = 13]]

\* The body of `for key, value in data.items()` for one key: one part for
\* each entry of the value.
PartsOf(key, val) ==
    [j \in 1..Len(val.vs) |->
        LET fn == IF val.kind = "tuple" THEN ";filename=\"" \o val.fname \o "\"" ELSE ""
        IN  [name |-> key, fn |-> fn, base64 |-> encode_content_base64 /\ fn # "",
             value |-> val.vs[j],
             extra_newline |-> val.vs[j] # <<>> /\ val.vs[j][Len(val.vs[j])] = 13]]

\* The parts written to the body, for the order data.items() has.
BodyParts(data, order) == Flatten([i \in 1..Len(order) |-> PartsOf(order[i], data[order[i]])])

\* The number of bytes the writes of one part add to the body.
PartLen(part) ==
    Len(sep_boundary)
    + Len("\r\nContent-Disposition: form-data; name=\"") + Len(part.name) + Len("\"")
    + Len(part.fn)
    + (IF part.base64 THEN Len("\r\nContent-Transfer-Encoding: base64") ELSE 0)
    + Len("\r\n\r\n")
    + Len(part.value)
    + (IF part.extra_newline THEN 1 ELSE 0)

\* len(body)
BodyLen(parts) == Sum([i \in 1..Len(parts) |-> PartLen(parts[i])]) + Len(end_boundary)

\* A header value: a text followed by bytes computed from the options.
HeaderValue(text, bytes) == [text |-> text, bytes |-> bytes]

\* The `headers` dictionary literal.
DefaultHeaders(parts, user, pass) ==
    [k \in {"Content-type", "Content-length", "Authorization"} |->
        IF k = "Content-type"
        THEN HeaderValue("multipart/form-data; boundary=" \o boundary, <<>>)
        ELSE IF k = "Content-length" THEN HeaderValue(Str(BodyLen(parts)), <<>>)
        ELSE HeaderValue("Basic ", standard_b64encode(user \o <<58>> \o pass))]

\* A slip that lets the defaults win over the caller's headers.
MergeHeaders_DefaultsWin(headers, custom) ==
    [k \in DOMAIN headers \cup DOMAIN custom |->
        IF k \in DOMAIN headers THEN headers[k] ELSE custom[k]]

\* `if self.distribution.custom_headers: headers.update(...)`
MergeHeaders(headers, custom) ==
    [k \in DOMAIN headers \cup DOMAIN custom |->
        IF k \in DOMAIN custom THEN custom[k] ELSE headers[k]]

---------------------------------------------------------------------------
(* upload.upload_file_extended *)

\* The gpg command line: the identity goes in at position 2.
GpgArgs(filename, identity) ==
    IF identity # ""
    THEN "gpg --detach-sign --local-user " \o identity \o " -a " \o filename
    ELSE "gpg --detach-sign -a " \o filename

\* The detached signature gpg writes for a file.
Signature(raw) == <<45, 45>> \o HexString(raw)

Result(p, e, evs, req, resp) ==
    [pc |-> p, exc |-> e, events |-> evs, request |-> req, response |-> resp]

SocketError == [type |-> "socket.error", msg |-> <<"Connection reset by peer">>]
URLError == [type |-> "URLError", msg |-> <<"Connection refused">>]
DistutilsExecError == [type |-> "DistutilsExecError", msg |-> <<"command 'gpg' failed with exit status 2">>]
IOError == [type |-> "IOError", msg |-> <<"No such file or directory">>]
TypeErrorNone == [type |-> "TypeError", msg |-> <<"unsupported operand type(s) for +: 'NoneType' and 'str'">>]
TypeErrorUnbound ==
    [type |-> "TypeError",
     msg |-> <<"unbound method upload_file() must be called with upload instance as first argument">>]
UploadFailed(status, reason) ==
    [type |-> "DistutilsError", msg |-> <<"Upload failed (" \o Str(status) \o "): " \o reason>>]

\* A slip that treats every 2xx answer as a success.
Succeeded_Any2xx(status) == status >= 200 /\ status < 300

\* `if status == 200`
Succeeded(status) == status = 200

\* The end of the handler, once status and reason are known.
Classify(status, reason, evs, req, net) ==
    IF Succeeded(status)
    THEN Result("uploaded", NoExc,
                evs \o <<Ev("announce.INFO", "Server response (" \o Str(status) \o "): " \o reason)>>,
                req, net)
    ELSE Result("raised", UploadFailed(status, reason),
                evs \o <<Ev("announce.ERROR", "Upload failed (" \o Str(status) \o "): " \o reason)>>,
                req, net)

\* A slip that retries once after a socket error.
Send_RetryOnce(net, show_response, evs, req) ==
    LET sent == evs \o <<Ev("urlopen", "POST")>>
    IN  IF net.kind = "socket.error"
        THEN Result("raised", net.error,
                    sent \o <<Ev("urlopen", "POST"), Ev("announce.ERROR", net.error.msg[1])>>, req, net)
        ELSE IF net.kind = "URLError" THEN Result("raised", net.error, sent, req, net)
        ELSE IF net.kind = "HTTPError" THEN Classify(net.code, net.msg, sent, req, net)
        ELSE IF ~show_response THEN Classify(net.code, net.msg, sent, req, net)
        ELSE IF net.read = "fail"
        THEN Result("raised", net.error,
                    sent \o <<Ev("read", ""), Ev("announce.ERROR", net.error.msg[1])>>, req, net)
        ELSE Classify(net.code, net.msg,
                      sent \o <<Ev("read", ""), Ev("announce.INFO", "response body")>>, req, net)

\* The try statement around urlopen, and the classification after it.  net is
\* what the transport does: a response, an HTTPError, a socket.error, or a
\* URLError (which neither except clause catches).
Send(net, show_response, evs, req) ==
    LET sent == evs \o <<Ev("urlopen", "POST")>>
    IN  IF net.kind = "socket.error"
        THEN Result("raised", net.error,
                    sent \o <<Ev("announce.ERROR", net.error.msg[1])>>, req, net)
        ELSE IF net.kind = "URLError" THEN Result("raised", net.error, sent, req, net)
        ELSE IF net.kind = "HTTPError" THEN Classify(net.code, net.msg, sent, req, net)
        ELSE IF ~show_response THEN Classify(net.code, net.msg, sent, req, net)
        ELSE IF net.read = "fail"
        THEN Result("raised", net.error,
                    sent \o <<Ev("read", ""), Ev("announce.ERROR", net.error.msg[1])>>, req, net)
        ELSE Classify(net.code, net.msg,
                      sent \o <<Ev("read", ""), Ev("announce.INFO", "response body")>>, req, net)

\* A slip that carries on when gpg fails.
SignStep_IgnoreFailure(sign, dry_run, filename, identity, gpg) ==
    IF ~sign THEN [exc |-> NoExc, events |-> <<>>]
    ELSE IF dry_run
    THEN [exc |-> NoExc, events |-> <<Ev("spawn.dry_run", GpgArgs(filename, identity))>>]
    ELSE [exc |-> NoExc,
          events |-> <<Ev("spawn", GpgArgs(filename, identity)), Ev("spawn.exit", gpg)>>]

\* "Sign if requested": spawn(gpg_args, dry_run=self.dry_run).  gpg is the
\* exit status of the tool; under dry_run spawn only logs the command.
SignStep(sign, dry_run, filename, identity, gpg) ==
    IF ~sign THEN [exc |-> NoExc, events |-> <<>>]
    ELSE IF dry_run
    THEN [exc |-> NoExc, events |-> <<Ev("spawn.dry_run", GpgArgs(filename, identity))>>]
    ELSE [exc |-> IF gpg = "0" THEN NoExc ELSE DistutilsExecError,
          events |-> <<Ev("spawn", GpgArgs(filename, identity)), Ev("spawn.exit", gpg)>>]

\* upload_file_extended(command, pyversion, filename) on the current command
\* state, for one behaviour env of its surroundings: the result record.
RunUpload(env) ==
    LET check == CheckRepositoryUrl(repository)
        signed == SignStep(upl.sign, upl.dry_run, upl.filename, upl.identity, env.gpg)
        read == signed.events \o <<Ev("open", upl.filename)>>
        asc == IF upl.sign /\ ~upl.dry_run THEN Signature(upl.content) ELSE env.asc
        readAsc == IF upl.sign THEN read \o <<Ev("open", upl.filename \o ".asc")>> ELSE read
        data == FormData(upl.command, upl.pyversion, upl.filename, upl.content, upl.meta,
                         Comment(upl.command, env), upl.sign, asc)
        parts == BodyParts(data, env.order)
        defaults == DefaultHeaders(parts, username, password)
        headers == IF DOMAIN custom_headers # {} THEN MergeHeaders(defaults, custom_headers)
                   ELSE defaults
        req == [url |-> repository, parts |-> parts, body_len |-> BodyLen(parts),
                headers |-> headers]
        submit == readAsc \o <<Ev("announce.INFO", "Submitting " \o upl.filename)>>
    IN  IF check.type # "None" THEN Result("raised", check, <<>>, NoneRec, NoneRec)
        ELSE IF signed.exc.type # "None"
        THEN Result("raised", signed.exc, signed.events, NoneRec, NoneRec)
        ELSE IF upl.sign /\ asc = None THEN Result("raised", IOError, readAsc, NoneRec, NoneRec)
        ELSE IF username = None \/ password = None
        THEN Result("raised", TypeErrorNone, readAsc, NoneRec, NoneRec)
        ELSE Send(env.net, upl.show_response, submit, req)

Net(kind, code, msg, read, error) ==
    [kind |-> kind, code |-> code, msg |-> msg, read |-> read, error |-> error]

\* What urlopen may do: urllib2 returns 2xx answers and raises HTTPError for
\* the others; reading the body of an answer may fail on the socket.
NetOutcomes ==
    {Net("response", 200, "OK", "ok", NoExc),
     Net("response", 200, "OK", "fail", SocketError),
     Net("response", 204, "No Content", "ok", NoExc),
     Net("HTTPError", 403, "Forbidden", "ok", NoExc),
     Net("HTTPError", 500, "Internal Server Error", "ok", NoExc),
     Net("socket.error", 0, "", "ok", SocketError),
     Net("URLError", 0, "", "ok", URLError)}

B_fedora == <<102, 101, 100, 111, 114, 97>>
B_38 == <<51, 56>>
B_Linux == <<76, 105, 110, 117, 120>>

\* The call can get as far as the form data: the target passes the checks
\* and the credentials are strings.
BuildsRequest ==
    CheckRepositoryUrl(repository).type = "None" /\ username # None /\ password # None

\* The behaviours of the surroundings that matter to the current call.
Envs ==
    {[gpg |-> g, asc |-> a, dist |-> d, dist_version |-> B_38, platform |-> B_Linux,
      order |-> o, net |-> n] :
        g \in (IF upl.sign /\ ~upl.dry_run THEN {"0", "2"} ELSE {"0"}),
        a \in (IF upl.sign /\ upl.dry_run THEN {None, <<45, 45>>} ELSE {None}),
        d \in (IF upl.command = "bdist_rpm" THEN {<<>>, B_fedora} ELSE {<<>>}),
        o \in (IF BuildsRequest THEN DictOrders(upl.sign) ELSE {SourceKeys}),
        n \in (IF BuildsRequest THEN NetOutcomes ELSE {Net("URLError", 0, "", "ok", URLError)})}

Finish(r, entered) ==
    /\ pc' = r.pc
    /\ exc' = r.exc
    /\ events' = events \o r.events
    /\ request' = r.request
    /\ response' = r.response
    /\ calls' = calls \o entered
    /\ UNCHANGED <<cmd, private_repository, custom_headers, pypirc, repository, username,
                   password, disable_pypi, index_url, find_links, no_find_links, files, upl>>

\* upload.upload_file_extended, called on its own.
upload_file_extended ==
    /\ pc = "finalized"
    /\ cmd = "upload"
    /\ \E env \in Envs : Finish(RunUpload(env), <<"upload_file_extended">>)

\* upload.upload_file: without custom headers it calls the base class's
\* upload_file as base_upload.upload_file(command, pyversion, filename), an
\* unbound method given no instance, which raises TypeError.
upload_file ==
    /\ pc = "finalized"
    /\ cmd = "upload"
    /\ IF DOMAIN custom_headers = {}
       THEN Finish(Result("raised", TypeErrorUnbound, <<>>, NoneRec, NoneRec), <<"upload_file">>)
       ELSE \E env \in Envs :
               Finish(RunUpload(env), <<"upload_file", "upload_file_extended">>)

---------------------------------------------------------------------------
(* The calls of the upload that are explored *)

MaxFileLen == 3
MaxClassifiers == 2

Stream == <<77, 97, 110, 255, 0, 13, 10, 200>>

\* The file to upload: the first n bytes of Stream.
FileBytes(n) == SubSeq(Stream, 1, n)

\* The metadata provider, with n classifiers.
Meta(n) ==
    [name |-> B_pkg, version |-> B_1_0, description |-> B_UNKNOWN, url |-> B_UNKNOWN,
     contact |-> B_UNKNOWN, contact_email |-> B_UNKNOWN, licence |-> B_UNKNOWN,
     long_description |-> IF n = 1 THEN <<100, 13>> ELSE B_UNKNOWN,
     keywords |-> IF n >= 1 THEN <<<<107>>>> ELSE <<>>,
     platforms |-> <<B_UNKNOWN>>,
     classifiers |-> [i \in 1..n |-> <<67, 48 + i>>],
     download_url |-> B_UNKNOWN,
     provides |-> <<>>,
     requires |-> IF n >= 2 THEN <<B_pkg, B_UNKNOWN>> ELSE <<>>,
     obsoletes |-> <<>>]

SignOptions ==
    {[sign |-> FALSE, identity |-> "", dry_run |-> FALSE],
     [sign |-> TRUE, identity |-> "", dry_run |-> FALSE],
     [sign |-> TRUE, identity |-> "0xKEY", dry_run |-> FALSE],
     [sign |-> TRUE, identity |-> "", dry_run |-> TRUE]}

UploadCalls ==
    {[command |-> c, pyversion |-> IF c = "sdist" THEN <<>> ELSE <<50, 46, 55>>,
      filename |-> "dist/pkg-1.0.tar.gz", sign |-> so.sign, identity |-> so.identity,
      dry_run |-> so.dry_run, show_response |-> sr, content |-> FileBytes(n),
      meta |-> Meta(m)] :
        c \in {"sdist", "bdist_rpm", "bdist_dumb"}, so \in SignOptions, sr \in BOOLEAN,
        n \in 0..MaxFileLen, m \in 0..MaxClassifiers}

UploadRepositories ==
    {IdxUrl,
     Url("HTTP", None, None, "idx.example", "/simple"),
     Url("ftp", None, None, "idx.example", "/simple"),
     UrlFull("https", None, None, "idx.example", "/simple", "", "q=1", ""),
     UrlFull("https", None, None, "idx.example", "/simple", "", "", "top"),
     UrlFull("https", None, None, "idx.example", "/simple", "v=2", "", ""),
     UrlFull("ftp", None, None, "idx.example", "/simple", "", "q=1", ""),
     Alias("internal")}

Text(t) == HeaderValue(t, <<>>)

CustomHeaderSets ==
    {<<>>,
     [k \in {"X-Token"} |-> Text("t0k3n")],
     [k \in {"Authorization", "Content-type"} |->
         IF k = "Authorization" THEN Text("Bearer t0k3n") ELSE Text("text/plain")],
     [k \in {"authorization"} |-> Text("Bearer t0k3n")]}

InitUpload ==
    /\ cmd = "upload"
    /\ private_repository = IdxUrl
    /\ custom_headers \in CustomHeaderSets
    /\ pypirc = DEFAULT_PYPI_RC
    /\ repository \in UploadRepositories
    /\ username \in {None, CfgUser}
    /\ password = (IF username = None THEN None ELSE CfgPass)
    /\ disable_pypi = "None"
    /\ index_url = NoneRec
    /\ find_links = <<>>
    /\ no_find_links = FALSE
    /\ files = [p \in {"/home/user/.pypirc", "/work/alt.cfg"} |-> Missing]
    /\ upl \in UploadCalls
    /\ pc = "finalized"
    /\ exc = NoExc
    /\ events = <<>>
    /\ request = NoneRec
    /\ response = NoneRec
    /\ calls = <<>>

NextUpload ==
    \/ upload_file
    \/ upload_file_extended

SpecUpload == InitUpload /\ [][NextUpload]_vars

---------------------------------------------------------------------------
(* Properties of finalize_options *)

Restricted == {"register", "upload", "upload_docs"}

\* The configuration file finalize_options reads from the current state.
RcInUse == IF Truthy(pypirc) THEN pypirc ELSE DEFAULT_PYPI_RC

Declared == RepositoryURL(private_repository)

\* The caller asked for a repository, and every way the configuration
\* resolves it ends at an endpoint other than the declared one.
ResolvesElsewhere ==
    /\ pc = "ready"
    /\ cmd \in Restricted
    /\ private_repository # NoneRec
    /\ Truthy(repository)
    /\ \A r \in get_repo_url(files, RcInUse, repository) :
          /\ ~r.err
          /\ Normalize(r.url.base_url) # Normalize(Declared.base_url)

\* C1: a restricted command whose requested repository resolves to another
\* endpoint than the declared one fails with the option error, keeps its
\* repository, username and password as they were, and builds no request.
C1_MismatchRejected ==
    [][ResolvesElsewhere =>
          /\ pc' = "raised"
          /\ exc'.type = "DistutilsOptionError"
          /\ repository' = repository
          /\ username' = username
          /\ password' = password
          /\ request' = NoneRec
          /\ \A i \in 1..Len(events') : events'[i].ev # "urlopen"]_vars

C1_Witness ==
    /\ pc = "raised"
    /\ exc.type = "DistutilsOptionError"
    /\ cmd = "upload"
    /\ private_repository = IdxUrl
    /\ repository = OtherUrl
    /\ username = None

\* C2: with no declared private repository every finalize_options raises the
\* setup error at once: no configuration file is read, no option changes.
C2_MissingDeclaredFirst ==
    [][(pc = "ready" /\ private_repository = NoneRec) =>
          /\ pc' = "raised"
          /\ exc' = SetupError
          /\ events' = <<>>
          /\ UNCHANGED <<pypirc, repository, username, password, disable_pypi,
                         index_url, find_links, no_find_links, request>>]_vars

C2_Witness ==
    /\ pc = "raised"
    /\ exc = SetupError
    /\ cmd = "easy_install"
    /\ pypirc = NoneRec
    /\ events = <<>>

\* The sections of the file in use that name the declared endpoint.
MatchingSections ==
    {sec \in files[AbsPath(RcInUse)].sections :
        WellFormed(sec)
        /\ Normalize(RepositoryURL(sec.repository).base_url) = Normalize(Declared.base_url)}

\* C3: with a declared repository and none requested, a restricted command
\* finalizes without the mismatch error, on the declared endpoint, with the
\* matching section's credentials, or else those given on the declared URL.
C3_DefaultsToDeclared ==
    [][(pc = "ready" /\ cmd \in Restricted /\ private_repository # NoneRec
           /\ ~Truthy(repository)) =>
          /\ pc' = "finalized"
          /\ Normalize(RepositoryURL(repository').base_url) = Normalize(Declared.base_url)
          /\ IF MatchingSections # {}
             THEN \E sec \in MatchingSections :
                     username' = sec.username /\ password' = sec.password
             ELSE username' = Declared.username /\ password' = Declared.password]_vars

---------------------------------------------------------------------------
(* Properties of upload_file_extended *)

\* upload_file_extended was entered, directly or through upload_file.
Entered == calls # <<>> /\ calls[Len(calls)] = "upload_file_extended"

Has(what) == \E i \in 1..Len(events) : events[i].ev = what

CountEv(what) == Cardinality({i \in 1..Len(events) : events[i].ev = what})

\* The handler got a status and a reason: urlopen returned, or raised HTTPError.
GotStatus == Entered /\ response.kind \in {"response", "HTTPError"}

\* The socket failed while the body of the answer was read for show_response.
ReadFailed == response.kind = "response" /\ upl.show_response /\ response.read = "fail"

FailureText == "Upload failed (" \o Str(response.code) \o "): " \o response.msg

\* The outcome the status decides: success for 200, else the failure that
\* is announced at error severity and then raised with status and reason.
StatusDecides ==
    IF response.code = 200
    THEN pc = "uploaded" /\ exc = NoExc
    ELSE /\ pc = "raised"
         /\ exc.type = "DistutilsError"
         /\ exc.msg = <<FailureText>>
         /\ events[Len(events)] = Ev("announce.ERROR", FailureText)

C5_SignBeforeReadAndSend ==
    /\ (Entered /\ upl.sign) =>
          \A i \in 1..Len(events) :
             events[i].ev \in {"open", "urlopen"} =>
                \E j \in 1..(i - 1) : events[j].ev \in {"spawn", "spawn.dry_run"}
    /\ (\E i \in 1..Len(events) : events[i] = Ev("spawn.exit", "2")) =>
          /\ pc = "raised"
          /\ exc = DistutilsExecError
          /\ request = NoneRec
          /\ ~Has("open")
          /\ ~Has("urlopen")

C5_Witness ==
    /\ Entered
    /\ upl.sign
    /\ events # <<>>
    /\ events[Len(events)] = Ev("spawn.exit", "2")
    /\ exc = DistutilsExecError
    /\ repository = IdxUrl

\* The target as the claim describes it, from the URL as written.
BadTarget ==
    \/ ~IsUrlString(repository)
    \/ LowerScheme(repository.scheme) \notin {"http", "https"}
    \/ repository.query # ""
    \/ repository.fragment # ""

GoodTarget ==
    /\ IsUrlString(repository)
    /\ LowerScheme(repository.scheme) \in {"http", "https"}
    /\ repository.params = ""
    /\ repository.query = ""
    /\ repository.fragment = ""

\* C6: a target that is not http(s), or has a query or a fragment, ends the
\* upload with an AssertionError before anything else is done; a plain
\* http(s) target never raises it.
C6_TargetValidatedFirst ==
    Entered =>
       /\ BadTarget => /\ pc = "raised"
                       /\ exc.type = "AssertionError"
                       /\ events = <<>>
                       /\ request = NoneRec
       /\ GoodTarget => exc.type # "AssertionError"

C6_Witness ==
    /\ Entered
    /\ upl.sign
    /\ IsUrlString(repository)
    /\ repository.scheme = "https"
    /\ repository.query = "q=1"
    /\ exc = AssertionError("Incompatible url")
    /\ events = <<>>

\* The transport failed on the socket, at urlopen or while the body was read.
SocketFailed == Entered /\ (response.kind = "socket.error" \/ ReadFailed)

\* C7: one call sends at most one request; a socket error is announced at
\* error severity and raised again as it is, and no status is classified.
C7_SingleAttempt ==
    /\ CountEv("urlopen") <= 1
    /\ SocketFailed =>
          /\ pc = "raised"
          /\ exc = response.error
          /\ events[Len(events)] = Ev("announce.ERROR", response.error.msg[1])
          /\ CountEv("announce.ERROR") = 1
          /\ exc.type # "DistutilsError"

C7_Witness ==
    /\ Entered
    /\ response.kind = "socket.error"
    /\ exc = SocketError
    /\ CountEv("urlopen") = 1

DefaultNames == {"Content-type", "Content-length", "Authorization"}

\* The default value of a header, from the request's body and the options.
DefaultValue(k) ==
    IF k = "Content-type"
    THEN HeaderValue("multipart/form-data; boundary=--------------GHSKFJDLGDS7543FJKLFHRE75642756743254", <<>>)
    ELSE IF k = "Content-length" THEN HeaderValue(Str(request.body_len), <<>>)
    ELSE HeaderValue("Basic ", standard_b64encode(username \o <<58>> \o password))

\* C8: the request's headers are the defaults together with the caller's;
\* a name given by the caller carries the caller's value, every other
\* default its default value.
C8_HeadersUnion ==
    request # NoneRec =>
       /\ DOMAIN request.headers = DefaultNames \cup DOMAIN custom_headers
       /\ \A k \in DOMAIN custom_headers : request.headers[k] = custom_headers[k]
       /\ \A k \in DefaultNames \ DOMAIN custom_headers : request.headers[k] = DefaultValue(k)

C8_Witness ==
    /\ request # NoneRec
    /\ "Authorization" \in DOMAIN custom_headers
    /\ request.headers["Authorization"] = HeaderValue("Bearer t0k3n", <<>>)
    /\ request.headers["Content-type"] = HeaderValue("text/plain", <<>>)
    /\ upl.command = "sdist"
    /\ ~upl.sign
    /\ upl.content = <<77, 97, 110>>
    /\ Len(upl.meta.classifiers) = 2
    /\ request.headers["Content-length"] = HeaderValue("2737", <<>>)

PartName(i) == request.parts[i].name

PartCount(k) == Cardinality({i \in 1..Len(request.parts) : PartName(i) = k})

\* The field order the claim lists.
ListedOrder == SourceKeys \o <<"gpg_signature">>

PosIn(order, k) == CHOOSE i \in 1..Len(order) : order[i] = k

\* The parts follow the given order of the fields.
Follows(order) ==
    \A i, j \in 1..Len(request.parts) :
       i < j => PosIn(order, PartName(i)) <= PosIn(order, PartName(j))

ScalarFields ==
    {":action", "protcol_version", "name", "version", "content", "filetype", "pyversion",
     "md5_digest", "metadata_version", "summary", "home_page", "author", "author_email",
     "license", "description", "download_url", "comment"}

\* The body holds the listed fields and no other: one part for a scalar, one
\* for each entry of a list, the file under its name, the signature exactly
\* when signing was asked for.
ListedFields ==
    /\ \A i \in 1..Len(request.parts) :
          PartName(i) \in {ListedOrder[n] : n \in 1..Len(ListedOrder)}
    /\ \A k \in ScalarFields : PartCount(k) = 1
    /\ PartCount("keywords") = Len(upl.meta.keywords)
    /\ PartCount("platform") = Len(upl.meta.platforms)
    /\ PartCount("classifiers") = Len(upl.meta.classifiers)
    /\ PartCount("provides") = Len(upl.meta.provides)
    /\ PartCount("requires") = Len(upl.meta.requires)
    /\ PartCount("obsoletes") = Len(upl.meta.obsoletes)
    /\ PartCount("gpg_signature") = (IF upl.sign THEN 1 ELSE 0)
    /\ \A i \in 1..Len(request.parts) :
          /\ PartName(i) = "content" =>
                request.parts[i].fn = ";filename=\"pkg-1.0.tar.gz\""
          /\ PartName(i) = "gpg_signature" =>
                request.parts[i].fn = ";filename=\"pkg-1.0.tar.gz.asc\""

PartValue(k) == request.parts[CHOOSE i \in 1..Len(request.parts) : PartName(i) = k].value

\* C10: decoding the content part gives back the file, and the checksum
\* field is the digest of those bytes.
C10_ChecksumOfFile ==
    request # NoneRec =>
       LET recovered == standard_b64decode(PartValue("content"))
       IN  /\ recovered = upl.content
           /\ PartValue("md5_digest") = md5_hexdigest(recovered)

===========================================================================
